---------------------------- MODULE Spec2Model ----------------------------
(***************************************************************************)
(* The track metrics pipeline of gpxFileTool (main.c, latest revision):    *)
(* main() runs, in order, the post-ingestion checks, trimTrkPts,           *)
(* checkTrkPts, closeTimeGap, smoothMetric (elevation), compMetrics,       *)
(* limitGrade, smoothMetric (another metric), adjElev and compMinMax over  *)
(* the list of track points.  Every pass is a while loop over the TAILQ;   *)
(* one action of the model is one iteration of such a loop, or the code    *)
(* of main() between two loops.                                            *)
(*                                                                         *)
(* Numbers: every double of the program is held as an integer number of    *)
(* hundredths (12.34 is 1234), so lengths are in cm, times in 1/100 s,     *)
(* speeds in cm/s and grades in 1/100 %.  A division keeps two decimals    *)
(* and truncates toward zero; a square root is the integer square root.    *)
(***************************************************************************)
EXTENDS Integers, Sequences, FiniteSets, TLC

VARIABLES
    pts,        \* GpsTrk.trkPtList: the TAILQ of TrkPt, in list order
    trk,        \* the scalar fields of GpsTrk
    args,       \* CmdArgs, as parseArgs left it
    pc,         \* where main() is: the pass that is running, "abort" or "done"
    cur,        \* position in pts of the loop cursor (p in trimTrkPts, p2 elsewhere)
    loc,        \* the local variables of the running pass
    freed,      \* indexes of the TrkPt's remTrkPt has freed
    input,      \* history: the list as ingested
    preCheck,   \* history: the list as checkTrkPts received it
    measured,   \* history: the list as compMetrics left it
    preSmooth   \* history: the list as smoothMetric received it

vars == <<pts, trk, args, pc, cur, loc, freed, input, preCheck, measured, preSmooth>>

---------------------------------------------------------------------------
(* Program constants, in hundredths *)

nilElev == -999999

nilGrade == -9999

nilSpeed == 999999

\* the sanity limit of the grade, 99.9 %
gradeLimit == 9990

\* the nominal sampling interval closeTimeGap leaves, 1 s
oneSecond == 100


\* x / 0 for x # 0 (an IEEE infinity): larger than any value of the model
infinity == 100 * nilSpeed

\* 0 / 0 (an IEEE NaN): a value no computation of the model produces otherwise
nan == 1 - infinity

---------------------------------------------------------------------------
(* Bounds of the model *)

\* points of a track in the timing and distance families
MaxPts == 3

\* points of a track in the missing-data family
MaxNilPts == 2

\* points of a track in the trim family
MaxTrimPts == 4

\* points of a track in the grade family
MaxGradePts == 3

\* points of a track in the smoothing family
MaxSmoothPts == 4

\* points of a track in the sensor family
MaxSensorPts == 4

---------------------------------------------------------------------------
(* Arithmetic *)

Abs(x) == IF x < 0 THEN -x ELSE x

\* a / b on doubles held in hundredths: two decimals, truncated toward zero
FDiv(a, b) ==
    IF b = 0 THEN (IF a = 0 THEN nan ELSE IF a > 0 THEN infinity ELSE -infinity)
    ELSE LET q == (Abs(a) * 100) \div Abs(b)
         IN  IF (a < 0) = (b < 0) THEN q ELSE -q

\* a * b on doubles held in hundredths
FMul(a, b) ==
    LET q == (Abs(a) * Abs(b)) \div 100
    IN  IF (a < 0) = (b < 0) THEN q ELSE -q

\* a / n for a whole number n > 0, to the precision a is held in,
\* truncated toward zero
TDiv(a, n) == IF a >= 0 THEN a \div n ELSE -((-a) \div n)

RECURSIVE SqrtIter(_, _, _)
SqrtIter(n, lo, hi) ==
    IF lo >= hi THEN lo
    ELSE LET mid == (lo + hi + 1) \div 2
         IN  IF mid * mid <= n THEN SqrtIter(n, mid, hi) ELSE SqrtIter(n, lo, mid - 1)

\* floor of the square root of a natural number (below 2^31)
ISqrt(n) == IF n <= 0 THEN 0 ELSE SqrtIter(n, 0, IF n < 46340 THEN n ELSE 46340)

\* sqrt(a*a + b*b) and sqrt(a*a - b*b) keep the unit of a and b
Hypot(a, b) == ISqrt(a * a + b * b)

Cathetus(a, b) == ISqrt(a * a - b * b)

---------------------------------------------------------------------------
(* The list *)

\* TAILQ_REMOVE followed by free: the list without its k-th element
RemoveAt(s, k) == [j \in 1..(Len(s) - 1) |-> IF j < k THEN s[j] ELSE s[j + 1]]

\* the list with its k-th element replaced
SetAt(s, k, p) == [s EXCEPT ![k] = p]

\* a TrkPt as newTrkPt returns it and the parser fills it
NewTrkPt(index, raw) ==
    [index |-> index,
     timestamp |-> raw.timestamp,
     latitude |-> raw.latitude,
     longitude |-> raw.longitude,
     elevation |-> raw.elevation,
     ambTemp |-> raw.ambTemp,
     cadence |-> raw.cadence,
     heartRate |-> raw.heartRate,
     power |-> raw.power,
     speed |-> raw.speed,
     distance |-> raw.distance,
     grade |-> raw.grade,
     adjGrade |-> FALSE,
     deltaT |-> 0,
     dist |-> 0,
     rise |-> 0,
     run |-> 0,
     deltaG |-> 0]

\* GpsTrk after the parsers: numTrkPts points were appended, the rest is zero
\* (a TrkPt pointer is held as the index of the point, NULL as -1)
NewGpsTrk(n) ==
    [numTrkPts |-> n,
     numElevAdj |-> 0,
     numDupTrkPts |-> 0,
     numTrimTrkPts |-> 0,
     numDiscTrkPts |-> 0,
     startTime |-> 0,
     endTime |-> 0,
     timeOffset |-> 0,
     baseDistance |-> 0,
     time |-> 0,
     distance |-> 0,
     maxDeltaD |-> 0,
     maxDeltaDTrkPt |-> -1,
     maxDeltaT |-> 0,
     maxDeltaTTrkPt |-> -1,
     inMask |-> {},
     heartRate |-> 0, cadence |-> 0, power |-> 0, temp |-> 0, grade |-> 0,
     elevGain |-> 0, elevLoss |-> 0,
     maxDeltaG |-> 0, maxDeltaGTrkPt |-> -1,
     maxCadence |-> 0, minCadence |-> 0,
     maxCadenceTrkPt |-> -1, minCadenceTrkPt |-> -1,
     maxHeartRate |-> 0, minHeartRate |-> 0,
     maxHeartRateTrkPt |-> -1, minHeartRateTrkPt |-> -1,
     maxPower |-> 0, minPower |-> 0,
     maxPowerTrkPt |-> -1, minPowerTrkPt |-> -1,
     maxSpeed |-> 0, minSpeed |-> 0,
     maxSpeedTrkPt |-> -1, minSpeedTrkPt |-> -1,
     maxTemp |-> 0, minTemp |-> 0,
     maxTempTrkPt |-> -1, minTempTrkPt |-> -1,
     maxElev |-> 0, minElev |-> 0,
     maxElevTrkPt |-> -1, minElevTrkPt |-> -1,
     maxGrade |-> 0, minGrade |-> 0,
     maxGradeTrkPt |-> -1, minGradeTrkPt |-> -1]

\* the local variables of trimTrkPts at its entry
NewTrimLocals ==
    [trimTrkPts |-> FALSE,
     trimmedTime |-> 0,
     trimmedDistance |-> 0,
     p0 |-> -1,
     p0timestamp |-> 0,
     p0distance |-> 0]

\* the locals of closeTimeGap at its entry
NewGapLocals == [trkPtFound |-> FALSE, timeGap |-> 0]

\* CmdArgs with no option given
DefaultArgs ==
    [verbatim |-> FALSE,
     setSpeed |-> 0,
     startTime |-> 0,
     trimFrom |-> 0,
     trimTo |-> 0,
     closeGap |-> 0,
     maxGrade |-> nilGrade,
     minGrade |-> nilGrade,
     maxGradeChange |-> 0,
     rangeFrom |-> 0,
     rangeTo |-> 0,
     xmaWindow |-> 0,
     xmaMethod |-> "simple",
     xmaMetric |-> "elevation",
     noElevAdj |-> FALSE]

---------------------------------------------------------------------------
(* main(): the order of the passes *)

\* the initial values compMinMax gives the minimum and maximum fields
minMaxInt == 999

minMaxPower == 9999

minMaxSpeed == 99990

minMaxElev == 9999990

minMaxGrade == 9990

\* GpsTrk after the assignments compMinMax makes before its loop (minTemp
\* and maxTemp are int: 999.9 is converted to 999)
MinMaxReset(t) ==
    [t EXCEPT !.minCadence = minMaxInt,     !.maxCadence = -minMaxInt,
              !.minHeartRate = minMaxInt,   !.maxHeartRate = -minMaxInt,
              !.minPower = minMaxPower,     !.maxPower = -minMaxPower,
              !.minSpeed = minMaxSpeed,     !.maxSpeed = -minMaxSpeed,
              !.minTemp = minMaxInt,        !.maxTemp = -minMaxInt,
              !.minElev = minMaxElev,       !.maxElev = -minMaxElev,
              !.minGrade = minMaxGrade,     !.maxGrade = -minMaxGrade]

\* PassAfter with the smoothing of a derived metric ahead of limitGrade
PassAfterSmoothFirst(pass) ==
    IF pass = "check" /\ args.closeGap # 0
    THEN "closeGap"
    ELSE IF /\ pass \in {"check", "closeGap"}
            /\ args.xmaWindow # 0 /\ args.xmaMetric = "elevation"
    THEN "smoothElev"
    ELSE IF pass \in {"check", "closeGap", "smoothElev"}
    THEN "metrics"
    ELSE IF /\ pass = "metrics"
            /\ args.xmaWindow # 0 /\ args.xmaMetric # "elevation"
    THEN "smooth"
    ELSE IF /\ pass \in {"metrics", "smooth"}
            /\ \/ args.maxGrade # nilGrade
               \/ args.minGrade # nilGrade
               \/ args.maxGradeChange # 0
    THEN "limitGrade"
    ELSE IF pass \in {"metrics", "limitGrade", "smooth"} /\ ~args.noElevAdj
    THEN "adjElev"
    ELSE IF pass # "minMax"
    THEN "minMax"
    ELSE "done"

\* the pass main() calls next when the given pass has returned: the tests
\* of main(), in its order
PassAfter(pass) ==
    IF pass = "check" /\ args.closeGap # 0
    THEN "closeGap"
    ELSE IF /\ pass \in {"check", "closeGap"}
            /\ args.xmaWindow # 0 /\ args.xmaMetric = "elevation"
    THEN "smoothElev"
    ELSE IF pass \in {"check", "closeGap", "smoothElev"}
    THEN "metrics"
    ELSE IF /\ pass = "metrics"
            /\ \/ args.maxGrade # nilGrade
               \/ args.minGrade # nilGrade
               \/ args.maxGradeChange # 0
    THEN "limitGrade"
    ELSE IF /\ pass \in {"metrics", "limitGrade"}
            /\ args.xmaWindow # 0 /\ args.xmaMetric # "elevation"
    THEN "smooth"
    ELSE IF pass \in {"metrics", "limitGrade", "smooth"} /\ ~args.noElevAdj
    THEN "adjElev"
    ELSE IF pass # "minMax"
    THEN "minMax"
    ELSE "done"

\* main() between two passes: the next pass is entered with its cursor on
\* the second point and its locals initialised
Enter(pass) ==
    /\ pc' = pass
    /\ cur' = 2
    /\ loc' = IF pass = "closeGap" THEN NewGapLocals ELSE loc
    /\ preSmooth' = IF pass \in {"smoothElev", "smooth"} THEN pts ELSE preSmooth

\* GpsTrk when the pass is entered
Entered(pass, t) == IF pass = "minMax" THEN MinMaxReset(t) ELSE t

---------------------------------------------------------------------------
(* main(): the checks after ingestion *)

\* main() returns -1 before trimTrkPts: no point, or a reference point
\* without elevation, or without time and nothing to make one from
FirstPointRejected ==
    \/ Len(pts) = 0
    \/ pts[1].elevation = nilElev
    \/ /\ pts[1].timestamp = 0
       /\ (args.startTime = 0 \/ args.setSpeed = 0)

\* the reference point after main() has set its timestamp
FirstPointTimed(p) ==
    IF p.timestamp = 0 THEN [p EXCEPT !.timestamp = args.startTime] ELSE p

\* GpsTrk.timeOffset as main() sets it
FirstTimeOffset(p) ==
    IF p.timestamp # 0 /\ args.startTime # 0
    THEN args.startTime - p.timestamp
    ELSE trk.timeOffset

MainStart ==
    /\ pc = "start"
    /\ IF FirstPointRejected
       THEN /\ pc' = "abort"
            /\ UNCHANGED <<pts, trk, cur, loc, preCheck>>
       ELSE /\ pts' = SetAt(pts, 1, FirstPointTimed(pts[1]))
            /\ trk' = [trk EXCEPT !.timeOffset = FirstTimeOffset(pts[1])]
            /\ IF args.trimFrom # 0
               THEN /\ pc' = "trim"
                    /\ cur' = 1
                    /\ loc' = NewTrimLocals
                    /\ UNCHANGED preCheck
               ELSE /\ pc' = "check"
                    /\ cur' = 2
                    /\ preCheck' = pts'
                    /\ UNCHANGED loc
    /\ UNCHANGED <<args, freed, input, measured, preSmooth>>

---------------------------------------------------------------------------
(* trimTrkPts *)

\* what a read of p0->timestamp and p0->distance can return: p0 is the
\* point at trimFrom, which remTrkPt has freed by the time trimTo is reached;
\* the freed block either still holds the values or has been overwritten
BaselineReads ==
    IF loc.p0 \in freed
    THEN {[timestamp |-> loc.p0timestamp, distance |-> loc.p0distance],
          [timestamp |-> 0, distance |-> 0]}
    ELSE {[timestamp |-> loc.p0timestamp, distance |-> loc.p0distance]}

\* TrimDiscards with the range counted from 1: the first point is point 1
TrimDiscardsFromOne(p) ==
    \/ p.index + 1 = args.trimFrom
    \/ p.index + 1 = args.trimTo
    \/ loc.trimTrkPts

\* the point p of trimTrkPts is discarded
TrimDiscards(p) ==
    \/ p.index = args.trimFrom
    \/ p.index = args.trimTo
    \/ loc.trimTrkPts

\* the locals of trimTrkPts after the branch taken for point p, where b is
\* what the read of the baseline returned
TrimLocals(p, b) ==
    IF p.index = args.trimFrom
    THEN [loc EXCEPT !.trimTrkPts = TRUE,
                     !.p0 = p.index,
                     !.p0timestamp = p.timestamp,
                     !.p0distance = p.distance]
    ELSE IF p.index = args.trimTo
    THEN [loc EXCEPT !.trimTrkPts = FALSE,
                     !.trimmedTime = p.timestamp - b.timestamp,
                     !.trimmedDistance = p.distance - b.distance]
    ELSE loc

\* a surviving point after "closing the gap"
TrimAdjusted(p) ==
    IF loc.p0 # -1
    THEN [p EXCEPT !.timestamp = @ - loc.trimmedTime,
                   !.distance = @ - loc.trimmedDistance]
    ELSE p

TrimStep ==
    /\ pc = "trim"
    /\ cur <= Len(pts)
    /\ LET p == pts[cur]
       IN  IF TrimDiscards(p)
           THEN /\ \E b \in BaselineReads : loc' = TrimLocals(p, b)
                /\ trk' = [trk EXCEPT !.numTrimTrkPts = @ + 1]
                /\ pts' = RemoveAt(pts, cur)
                /\ freed' = freed \cup {p.index}
                /\ cur' = cur
           ELSE /\ pts' = SetAt(pts, cur, TrimAdjusted(p))
                /\ cur' = cur + 1
                /\ UNCHANGED <<trk, loc, freed>>
    /\ UNCHANGED <<args, pc, input, preCheck, measured, preSmooth>>

\* main() after trimTrkPts returned: on to checkTrkPts
MainAfterTrim ==
    /\ pc = "trim"
    /\ cur > Len(pts)
    /\ pc' = "check"
    /\ cur' = 2
    /\ preCheck' = pts
    /\ UNCHANGED <<pts, trk, args, loc, freed, input, measured, preSmooth>>

---------------------------------------------------------------------------
(* checkTrkPts *)

\* MissingData without the test of the timestamp
MissingElevation(p2) == p2.elevation = nilElev

\* checkTrkPts returns -1 at p2: no elevation, or no time and no set speed
MissingData(p2) ==
    \/ p2.elevation = nilElev
    \/ (p2.timestamp = 0 /\ args.setSpeed = 0)

\* p2 repeats the position of p1
IsDuplicate(p1, p2) ==
    /\ p2.latitude = p1.latitude
    /\ p2.longitude = p1.longitude
    /\ p2.elevation = p1.elevation

\* BadTimestamp with "<" for "<=": an equal timestamp passes
BadTimestampStrict(p1, p2) ==
    /\ p2.timestamp # 0
    /\ p2.timestamp < p1.timestamp

\* p2 has a timestamp that does not increase
BadTimestamp(p1, p2) ==
    /\ p2.timestamp # 0
    /\ p2.timestamp <= p1.timestamp

\* p2 has a distance that does not increase
BadDistance(p1, p2) ==
    /\ p2.distance # 0
    /\ p2.distance <= p1.distance

\* DupCount without the test of the option
DupCountAlways(p1, p2) == IF IsDuplicate(p1, p2) THEN 1 ELSE 0

\* the increments of numDupTrkPts and numDiscTrkPts for the pair
DupCount(p1, p2) ==
    IF ~args.verbatim /\ IsDuplicate(p1, p2) THEN 1 ELSE 0

DiscCount(p1, p2) ==
    IF args.verbatim THEN 0
    ELSE (IF BadTimestamp(p1, p2) THEN 1 ELSE 0)
         + (IF BadDistance(p1, p2) THEN 1 ELSE 0)

\* CheckDiscards without the duplicates: they are counted and kept
CheckDiscardsNoDup(p1, p2) ==
    /\ ~args.verbatim
    /\ (BadTimestamp(p1, p2) \/ BadDistance(p1, p2))

\* discTrkPt at the end of the checks
CheckDiscards(p1, p2) ==
    /\ ~args.verbatim
    /\ (IsDuplicate(p1, p2) \/ BadTimestamp(p1, p2) \/ BadDistance(p1, p2))

\* one iteration of the loop of checkTrkPts; its own p0 stays NULL, so a
\* surviving point is left as it is
CheckStep ==
    /\ pc = "check"
    /\ cur <= Len(pts)
    /\ LET p1 == pts[cur - 1]
           p2 == pts[cur]
       IN  IF MissingData(p2)
           THEN /\ pc' = "abort"
                /\ UNCHANGED <<pts, trk, cur, freed>>
           ELSE /\ pc' = pc
                /\ trk' = [trk EXCEPT !.numDupTrkPts = @ + DupCount(p1, p2),
                                      !.numDiscTrkPts = @ + DiscCount(p1, p2)]
                /\ IF CheckDiscards(p1, p2)
                   THEN /\ pts' = RemoveAt(pts, cur)
                        /\ freed' = freed \cup {p2.index}
                        /\ cur' = cur
                   ELSE /\ cur' = cur + 1
                        /\ UNCHANGED <<pts, freed>>
    /\ UNCHANGED <<args, loc, input, preCheck, measured, preSmooth>>

\* main() after checkTrkPts returned 0: the start time and the base
\* distance of the activity
MainAfterCheck ==
    /\ pc = "check"
    /\ cur > Len(pts)
    /\ trk' = [trk EXCEPT !.startTime = pts[1].timestamp,
                          !.baseDistance = pts[1].distance]
    /\ Enter(PassAfter("check"))
    /\ UNCHANGED <<pts, args, freed, input, preCheck, measured>>

---------------------------------------------------------------------------
(* closeTimeGap *)

\* GapLocals without the second that is left between the two points
GapLocalsWhole(p1, p2) ==
    IF ~loc.trkPtFound /\ p2.index = args.closeGap
    THEN [trkPtFound |-> TRUE, timeGap |-> p2.timestamp - p1.timestamp]
    ELSE loc

\* the locals of closeTimeGap after its test of the pair
GapLocals(p1, p2) ==
    IF ~loc.trkPtFound /\ p2.index = args.closeGap
    THEN [trkPtFound |-> TRUE,
          timeGap |-> p2.timestamp - p1.timestamp - oneSecond]
    ELSE loc

CloseGapStep ==
    /\ pc = "closeGap"
    /\ cur <= Len(pts)
    /\ LET p1 == pts[cur - 1]
           p2 == pts[cur]
           l  == GapLocals(p1, p2)
       IN  /\ loc' = l
           /\ pts' = IF l.trkPtFound
                     THEN SetAt(pts, cur, [p2 EXCEPT !.timestamp = @ - l.timeGap])
                     ELSE pts
    /\ cur' = cur + 1
    /\ UNCHANGED <<trk, args, pc, freed, input, preCheck, measured, preSmooth>>

\* main() after closeTimeGap
MainAfterCloseGap ==
    /\ pc = "closeGap"
    /\ cur > Len(pts)
    /\ Enter(PassAfter("closeGap"))
    /\ UNCHANGED <<pts, trk, args, freed, input, preCheck, measured>>

---------------------------------------------------------------------------
(* pointWithinRange *)

\* pointWithinRange without the range
pointAlwaysWithinRange(p) == TRUE

pointWithinRange(p) ==
    \/ args.rangeFrom = 0
    \/ (p.index >= args.rangeFrom /\ p.index <= args.rangeTo)

---------------------------------------------------------------------------
(* smoothMetric *)

xmaGetVal(p, xmaMetric) ==
    IF xmaMetric = "elevation" THEN p.elevation
    ELSE IF xmaMetric = "grade" THEN p.grade
    ELSE IF xmaMetric = "power" THEN p.power
    ELSE p.speed

\* the point with the value stored (power is an int of whole watts, held as
\* such: the quotient has already lost its fraction)
xmaSetVal(p, xmaMetric, value) ==
    IF xmaMetric = "elevation" THEN [p EXCEPT !.elevation = value]
    ELSE IF xmaMetric = "grade" THEN [p EXCEPT !.grade = value]
    ELSE IF xmaMetric = "power" THEN [p EXCEPT !.power = value]
    ELSE [p EXCEPT !.speed = value]

\* xmaWeight with the neighbours counted from 1: the weight of the point
\* next to the point is n - 1, that of the n-th is 0
xmaWeightFromOne(n, i) == IF args.xmaMethod = "weighed" THEN n - i - 1 ELSE 1

\* the weight of the i-th point (from 0) to the left or right of the point
xmaWeight(n, i) == IF args.xmaMethod = "weighed" THEN n - i ELSE 1

\* <<summ, denom>> over the first j points on one side of position k of
\* the list s (dir is -1 for TAILQ_PREV, 1 for TAILQ_NEXT); the loop ends
\* at the end of the list
RECURSIVE xmaSide(_, _, _, _, _)
xmaSide(s, k, dir, n, j) ==
    IF j = 0 THEN <<0, 0>>
    ELSE LET r == xmaSide(s, k, dir, n, j - 1)
             pos == k + dir * j
         IN  IF pos < 1 \/ pos > Len(s) THEN r
             ELSE <<r[1] + xmaGetVal(s[pos], args.xmaMetric) * xmaWeight(n, j - 1),
                    r[2] + xmaWeight(n, j - 1)>>

\* the point at position k of the list s after compMovAvg
compMovAvg(s, k) ==
    LET n == (args.xmaWindow - 1) \div 2
        before == xmaSide(s, k, -1, n, n)
        after == xmaSide(s, k, 1, n, n)
        weight == IF args.xmaMethod = "weighed" THEN n + 1 ELSE 1
        summ == before[1] + xmaGetVal(s[k], args.xmaMetric) * weight + after[1]
        denom == before[2] + weight + after[2]
        xmaVal == TDiv(summ, denom)
        valAdj == xmaVal # xmaGetVal(s[k], args.xmaMetric)
        q == xmaSetVal(s[k], args.xmaMetric, xmaVal)
    IN  IF valAdj /\ args.xmaMetric = "grade"
        THEN [q EXCEPT !.adjGrade = TRUE]
        ELSE q

\* the list after one iteration of the loop of smoothMetric
Smoothed(s, k) ==
    IF pointWithinRange(s[k]) THEN SetAt(s, k, compMovAvg(s, k)) ELSE s

\* one iteration of the loop of smoothMetric, called for the elevation
SmoothElevStep ==
    /\ pc = "smoothElev"
    /\ cur <= Len(pts)
    /\ pts' = Smoothed(pts, cur)
    /\ cur' = cur + 1
    /\ UNCHANGED <<trk, args, pc, loc, freed, input, preCheck, measured, preSmooth>>

\* main() after smoothMetric on the elevation
MainAfterSmoothElev ==
    /\ pc = "smoothElev"
    /\ cur > Len(pts)
    /\ Enter(PassAfter("smoothElev"))
    /\ UNCHANGED <<pts, trk, args, freed, input, preCheck, measured>>

\* one iteration of the loop of smoothMetric, called for another metric
SmoothStep ==
    /\ pc = "smooth"
    /\ cur <= Len(pts)
    /\ pts' = Smoothed(pts, cur)
    /\ cur' = cur + 1
    /\ UNCHANGED <<trk, args, pc, loc, freed, input, preCheck, measured, preSmooth>>

\* main() after smoothMetric on another metric
MainAfterSmooth ==
    /\ pc = "smooth"
    /\ cur > Len(pts)
    /\ Enter(PassAfter("smooth"))
    /\ trk' = Entered(PassAfter("smooth"), trk)
    /\ UNCHANGED <<pts, args, freed, input, preCheck, measured>>

---------------------------------------------------------------------------
(* compMetrics *)

\* the Haversine distance between two points.  Latitude and longitude are
\* held in steps of 5 m of arc, and over the few steps the points of a model
\* track are apart the formula is its small-angle form: the Euclidean
\* length, zero exactly when the two positions are the same
compDistance(p1, p2) ==
    LET dLat == p2.latitude - p1.latitude
        dLon == p2.longitude - p1.longitude
    IN  ISqrt((dLat * dLat + dLon * dLon) * (500 * 500))

\* WithRun without "assume a null grade": the run of a point whose device
\* dist is not above its absolute rise is left as it was
WithRunNoFallback(p1, p2) ==
    LET rise == p2.elevation - p1.elevation
        absRise == Abs(rise)
    IN  IF p2.distance # 0
        THEN LET dist == p2.distance - p1.distance
             IN  [p2 EXCEPT !.rise = rise,
                            !.dist = dist,
                            !.run = IF dist > absRise THEN Cathetus(dist, absRise)
                                    ELSE @]
        ELSE LET run == compDistance(p1, p2)
                 dist == IF absRise = 0 THEN run ELSE Hypot(run, absRise)
             IN  [p2 EXCEPT !.rise = rise,
                            !.run = run,
                            !.dist = IF run = 0 THEN @ ELSE dist,
                            !.distance = IF run = 0 THEN @ ELSE p1.distance + dist]

\* p2 after rise and dist/run have been set, up to the test for a stop
WithRun(p1, p2) ==
    LET rise == p2.elevation - p1.elevation
        absRise == Abs(rise)
    IN  IF p2.distance # 0
        THEN LET dist == p2.distance - p1.distance
             IN  [p2 EXCEPT !.rise = rise,
                            !.dist = dist,
                            !.run = IF dist = 0 THEN @
                                    ELSE IF dist > absRise THEN Cathetus(dist, absRise)
                                    ELSE dist]
        ELSE LET run == compDistance(p1, p2)
                 dist == IF absRise = 0 THEN run ELSE Hypot(run, absRise)
             IN  [p2 EXCEPT !.rise = rise,
                            !.run = run,
                            !.dist = IF run = 0 THEN @ ELSE dist,
                            !.distance = IF run = 0 THEN @ ELSE p1.distance + dist]

\* the point is a stop: a null dist (with a device distance) or a null run
IsStopped(p2, q) ==
    IF p2.distance # 0 THEN q.dist = 0 ELSE q.run = 0

\* a stop in verbatim mode: the data of the previous point is carried over
CarryOver(p1, q) ==
    [q EXCEPT !.distance = p1.distance,
              !.grade = p1.grade,
              !.speed = p1.speed]

\* the timestamp and the time interval of the point
WithTime(p1, q) ==
    LET ts == IF q.timestamp = 0
              THEN p1.timestamp + FDiv(q.dist, args.setSpeed)
              ELSE q.timestamp
    IN  [q EXCEPT !.timestamp = ts, !.deltaT = ts - p1.timestamp]

\* the speed of the point: the device's, or distance over time
WithSpeed(q) ==
    IF q.speed = nilSpeed THEN [q EXCEPT !.speed = FDiv(q.dist, q.deltaT)] ELSE q

\* the sanity check of the grade
ClampGrade(g) ==
    IF g > gradeLimit THEN gradeLimit
    ELSE IF g < -gradeLimit THEN -gradeLimit
    ELSE g

\* the grade of the point: the device's, or rise over run, and its change
WithGrade(p1, q) ==
    LET g0 == IF q.grade = nilGrade
              THEN (IF q.run # 0 THEN FDiv(q.rise * 100, q.run) ELSE p1.grade)
              ELSE q.grade
        g == ClampGrade(g0)
    IN  [q EXCEPT !.grade = g, !.deltaG = Abs(g - p1.grade)]

\* p2 at the end of an iteration that keeps it
Measured(p1, p2) == WithGrade(p1, WithSpeed(WithTime(p1, WithRun(p1, p2))))

\* GpsTrk at the end of an iteration that kept the point as q
TrkMeasured(q) ==
    [trk EXCEPT !.maxDeltaD = IF q.dist > @ THEN q.dist ELSE @,
                !.maxDeltaDTrkPt = IF q.dist > trk.maxDeltaD THEN q.index ELSE @,
                !.maxDeltaT = IF q.deltaT > @ THEN q.deltaT ELSE @,
                !.maxDeltaTTrkPt = IF q.deltaT > trk.maxDeltaT THEN q.index ELSE @,
                !.distance = @ + q.dist,
                !.time = @ + q.deltaT,
                !.endTime = q.timestamp]

\* TrkStopDiscarded without the increment of the counter
TrkStopUncounted == trk

\* GpsTrk at the end of an iteration that discarded a stop
TrkStopDiscarded == [trk EXCEPT !.numDiscTrkPts = @ + 1]

\* one iteration of the loop of compMetrics
MetricsStep ==
    /\ pc = "metrics"
    /\ cur <= Len(pts)
    /\ LET p1 == pts[cur - 1]
           p2 == pts[cur]
           q  == WithRun(p1, p2)
       IN  IF IsStopped(p2, q)
           THEN IF ~args.verbatim
                THEN /\ pts' = RemoveAt(pts, cur)
                     /\ freed' = freed \cup {p2.index}
                     /\ trk' = TrkStopDiscarded
                     /\ cur' = cur
                ELSE /\ pts' = SetAt(pts, cur, CarryOver(p1, q))
                     /\ cur' = cur + 1
                     /\ UNCHANGED <<trk, freed>>
           ELSE /\ pts' = SetAt(pts, cur, Measured(p1, p2))
                /\ trk' = TrkMeasured(Measured(p1, p2))
                /\ cur' = cur + 1
                /\ UNCHANGED freed
    /\ UNCHANGED <<args, pc, loc, input, preCheck, measured, preSmooth>>

\* main() after compMetrics
MainAfterMetrics ==
    /\ pc = "metrics"
    /\ cur > Len(pts)
    /\ Enter(PassAfter("metrics"))
    /\ trk' = Entered(PassAfter("metrics"), trk)
    /\ measured' = pts
    /\ UNCHANGED <<pts, args, freed, input, preCheck>>

---------------------------------------------------------------------------
(* limitGrade *)

\* adjMaxGrade without the flag
adjMaxGradeUnflagged(p1, p2) == [p2 EXCEPT !.grade = args.maxGrade]

adjMaxGrade(p1, p2) == [p2 EXCEPT !.grade = args.maxGrade, !.adjGrade = TRUE]

adjMinGrade(p1, p2) == [p2 EXCEPT !.grade = args.minGrade, !.adjGrade = TRUE]

adjGradeChange(p1, p2) ==
    [p2 EXCEPT !.grade = IF p2.grade > p1.grade
                         THEN p1.grade + args.maxGradeChange
                         ELSE p1.grade - args.maxGradeChange,
               !.adjGrade = TRUE]

\* the three adjustments of limitGrade, in its order, on a point in range
Limited(p1, p2) ==
    LET a == IF args.maxGrade # nilGrade /\ p2.grade > args.maxGrade
             THEN adjMaxGrade(p1, p2) ELSE p2
        b == IF args.minGrade # nilGrade /\ a.grade < args.minGrade
             THEN adjMinGrade(p1, a) ELSE a
    IN  IF args.maxGradeChange # 0 /\ b.deltaG > args.maxGradeChange
        THEN adjGradeChange(p1, b) ELSE b

\* one iteration of the loop of limitGrade
LimitGradeStep ==
    /\ pc = "limitGrade"
    /\ cur <= Len(pts)
    /\ pts' = IF pointWithinRange(pts[cur])
              THEN SetAt(pts, cur, Limited(pts[cur - 1], pts[cur]))
              ELSE pts
    /\ cur' = cur + 1
    /\ UNCHANGED <<trk, args, pc, loc, freed, input, preCheck, measured, preSmooth>>

\* main() after limitGrade
MainAfterLimitGrade ==
    /\ pc = "limitGrade"
    /\ cur > Len(pts)
    /\ Enter(PassAfter("limitGrade"))
    /\ trk' = Entered(PassAfter("limitGrade"), trk)
    /\ UNCHANGED <<pts, args, freed, input, preCheck, measured>>

---------------------------------------------------------------------------
(* adjElev *)

\* adjElevation without its test: the fields are assigned and the counter
\* is incremented whatever the elevation was
adjElevationAlways(t, p1, p2) ==
    LET rise == TDiv(p2.run * p2.grade, 10000)
    IN  [pt |-> [p2 EXCEPT !.rise = rise, !.dist = Hypot(p2.run, rise),
                           !.elevation = p1.elevation + rise],
         trk |-> [t EXCEPT !.numElevAdj = @ + 1]]

\* p2 and GpsTrk after adjElevation: run is in cm and grade in 1/100 %, so
\* run * (grade / 100.0) is their product over 10000
adjElevation(t, p1, p2) ==
    LET run == p2.run
        rise == TDiv(run * p2.grade, 10000)
        dist == Hypot(run, rise)
        adjElev == p1.elevation + rise
    IN  IF adjElev # p2.elevation
        THEN [pt |-> [p2 EXCEPT !.rise = rise, !.dist = dist, !.elevation = adjElev],
              trk |-> [t EXCEPT !.numElevAdj = @ + 1]]
        ELSE [pt |-> p2, trk |-> t]

\* the test of the loop of adjElev on the point at position k of the list s
NeedsElevAdj(s, k) == pointWithinRange(s[k]) /\ s[k].adjGrade

\* the list s and GpsTrk t after the iteration of the loop of adjElev on
\* the point at position k
AdjElevAt(s, t, k) ==
    IF NeedsElevAdj(s, k)
    THEN LET r == adjElevation(t, s[k - 1], s[k])
         IN  [pts |-> SetAt(s, k, r.pt), trk |-> r.trk]
    ELSE [pts |-> s, trk |-> t]

\* the list s and GpsTrk t after the iterations from position k to the end
\* of the list
RECURSIVE AdjElevFrom(_, _, _)
AdjElevFrom(s, t, k) ==
    IF k > Len(s) THEN [pts |-> s, trk |-> t]
    ELSE LET r == AdjElevAt(s, t, k)
         IN  AdjElevFrom(r.pts, r.trk, k + 1)

\* one iteration of the loop of adjElev
AdjElevStep ==
    /\ pc = "adjElev"
    /\ cur <= Len(pts)
    /\ pts' = AdjElevAt(pts, trk, cur).pts
    /\ trk' = AdjElevAt(pts, trk, cur).trk
    /\ cur' = cur + 1
    /\ UNCHANGED <<args, pc, loc, freed, input, preCheck, measured, preSmooth>>

\* main() after adjElev
MainAfterAdjElev ==
    /\ pc = "adjElev"
    /\ cur > Len(pts)
    /\ Enter(PassAfter("adjElev"))
    /\ trk' = Entered(PassAfter("adjElev"), trk)
    /\ UNCHANGED <<pts, args, freed, input, preCheck, measured>>

---------------------------------------------------------------------------
(* compMinMax *)

\* MinMaxOf without the test for zero: every value below the minimum
\* replaces it
MinMaxOfAnyValue(t, p, v, skipZero, max, maxPt, min, minPt) ==
    IF v > t[max]
    THEN [t EXCEPT ![max] = v, ![maxPt] = p.index]
    ELSE IF v < t[min]
    THEN [t EXCEPT ![min] = v, ![minPt] = p.index]
    ELSE t

\* one "if above the maximum, else if below the minimum" of the loop, on
\* the value v of the point p: max and min name the two fields of GpsTrk,
\* maxPt and minPt the two pointers
MinMaxOf(t, p, v, skipZero, max, maxPt, min, minPt) ==
    IF v > t[max]
    THEN [t EXCEPT ![max] = v, ![maxPt] = p.index]
    ELSE IF (skipZero => v # 0) /\ v < t[min]
    THEN [t EXCEPT ![min] = v, ![minPt] = p.index]
    ELSE t

\* the same when the channel is in inMask, else nothing
MinMaxIf(t, channel, p, v, skipZero, max, maxPt, min, minPt) ==
    IF channel \in t.inMask
    THEN MinMaxOf(t, p, v, skipZero, max, maxPt, min, minPt)
    ELSE t

\* GainLoss without the test of the sign: every rise goes to the gain
GainOnly(t, p) == [t EXCEPT !.elevGain = @ + p.rise]

\* the rolling elevation gain and loss
GainLoss(t, p) ==
    IF p.rise >= 0
    THEN [t EXCEPT !.elevGain = @ + p.rise]
    ELSE [t EXCEPT !.elevLoss = @ + Abs(p.rise)]

\* GpsTrk after one iteration of the loop of compMinMax on the point p
MinMaxSwept(t, p) ==
    LET a == MinMaxIf(t, "cadence", p, p.cadence, TRUE,
                      "maxCadence", "maxCadenceTrkPt", "minCadence", "minCadenceTrkPt")
        b == MinMaxIf(a, "heartRate", p, p.heartRate, TRUE,
                      "maxHeartRate", "maxHeartRateTrkPt",
                      "minHeartRate", "minHeartRateTrkPt")
        c == MinMaxIf(b, "power", p, p.power, TRUE,
                      "maxPower", "maxPowerTrkPt", "minPower", "minPowerTrkPt")
        d == MinMaxOf(c, p, p.speed, TRUE,
                      "maxSpeed", "maxSpeedTrkPt", "minSpeed", "minSpeedTrkPt")
        e == MinMaxIf(d, "ambTemp", p, p.ambTemp, FALSE,
                      "maxTemp", "maxTempTrkPt", "minTemp", "minTempTrkPt")
        f == MinMaxOf(e, p, p.elevation, FALSE,
                      "maxElev", "maxElevTrkPt", "minElev", "minElevTrkPt")
        g == MinMaxOf(f, p, p.grade, FALSE,
                      "maxGrade", "maxGradeTrkPt", "minGrade", "minGradeTrkPt")
        h == IF p.deltaG > g.maxDeltaG
             THEN [g EXCEPT !.maxDeltaG = p.deltaG, !.maxDeltaGTrkPt = p.index]
             ELSE g
        i == GainLoss(h, p)
    IN  [i EXCEPT !.cadence = @ + p.cadence,
                  !.grade = @ + p.grade,
                  !.heartRate = @ + p.heartRate,
                  !.power = @ + p.power,
                  !.temp = @ + p.ambTemp]

\* one iteration of the loop of compMinMax
MinMaxStep ==
    /\ pc = "minMax"
    /\ cur <= Len(pts)
    /\ trk' = MinMaxSwept(trk, pts[cur])
    /\ cur' = cur + 1
    /\ UNCHANGED <<pts, args, pc, loc, freed, input, preCheck, measured, preSmooth>>

\* main() after compMinMax: the output is generated and main() returns
MainAfterMinMax ==
    /\ pc = "minMax"
    /\ cur > Len(pts)
    /\ Enter(PassAfter("minMax"))
    /\ UNCHANGED <<pts, trk, args, freed, input, preCheck, measured>>

---------------------------------------------------------------------------
(* The inputs: what the parsers hand to main(), in families of tracks and   *)
(* options.  Timestamp 0, distance 0, nilElev, nilGrade and nilSpeed are    *)
(* the values of a field the input file does not give.                      *)

\* the fields of a GPX point: position, elevation and time only; speed and
\* grade are left at nilSpeed and nilGrade, the values compMetrics tests
\* for before it computes them
GpxRaw(ts, lat, ele) ==
    [timestamp |-> ts, latitude |-> lat, longitude |-> 0, elevation |-> ele,
     ambTemp |-> 0, cadence |-> 0, heartRate |-> 0, power |-> 0,
     speed |-> nilSpeed, distance |-> 0, grade |-> nilGrade]

\* the list the parsers build from the raw points r[1..n]
ParsedTrack(n, r) == [i \in 1..n |-> NewTrkPt(i - 1, r[i])]

RECURSIVE SumTo(_, _)
SumTo(f, i) == IF i = 0 THEN 0 ELSE f[i] + SumTo(f, i - 1)

\* tracks with and without timestamps, with repeated positions
TimingRaw == {GpxRaw(ts, lat, 10000) : ts \in {0, 1000, 2000}, lat \in {0, 1}}

TimingArgs ==
    {[DefaultArgs EXCEPT !.verbatim = v, !.setSpeed = s,
                         !.startTime = t, !.closeGap = g] :
        v \in BOOLEAN, s \in {0, 250}, t \in {0, 500}, g \in {0, 1, 2}}

\* tracks with points that lack elevation or time (and the empty track)
MissingRaw ==
    {GpxRaw(ts, lat, ele) :
        ts \in {0, 1000, 2000}, lat \in {0, 1}, ele \in {nilElev, 10000}}

MissingArgs ==
    {[DefaultArgs EXCEPT !.verbatim = v, !.setSpeed = s, !.startTime = t] :
        v \in BOOLEAN, s \in {0, 250}, t \in {0, 500}}

\* timed tracks where some points carry a device distance, over two
\* elevations: point i is recorded at second 10 * i
DistanceChoices == [lat : {0, 1}, ele : {10000, 10600}, d : {0, 500, 1000}]

DistanceRaw(n, c) ==
    [i \in 1..n |->
        [GpxRaw(1000 * i, c[i].lat, c[i].ele) EXCEPT !.distance = c[i].d]]

DistanceArgs == {[DefaultArgs EXCEPT !.verbatim = v] : v \in BOOLEAN}

\* clean tracks (every point moves on, in time and in space), with or
\* without device distances, and a trim request: dt[i] is the time from
\* point i-1 to point i
TrimRaw(n, dt, dev) ==
    [i \in 1..n |->
        [GpxRaw(SumTo(dt, i), i, 10000)
            EXCEPT !.distance = IF dev THEN SumTo(dt, i) \div 2 ELSE 0]]

\* a trim request as parseArgs accepts it (1 <= a <= b), or none
TrimRequests ==
    {ab \in (0..MaxTrimPts) \X (0..MaxTrimPts) :
        (ab[1] = 0 /\ ab[2] = 0) \/ (1 <= ab[1] /\ ab[1] <= ab[2])}

TrimArgs ==
    {[DefaultArgs EXCEPT !.verbatim = v, !.trimFrom = ab[1], !.trimTo = ab[2]] :
        v \in BOOLEAN, ab \in TrimRequests}

\* clean tracks of a device that reports distance and grade, and the
\* options of limitGrade
GradeChoices == {-500, 0, 400, 1000}

GradeRaw(n, g) ==
    [i \in 1..n |->
        [GpxRaw(1000 * i, i, 10000) EXCEPT !.distance = 1000 * i, !.grade = g[i]]]

\* a range as parseArgs accepts it (1 <= from < to), or none
GradeRanges == {<<0, 0>>, <<1, 2>>, <<2, 3>>}

GradeArgs ==
    {[DefaultArgs EXCEPT !.maxGrade = mx, !.minGrade = mn, !.maxGradeChange = c,
                         !.rangeFrom = r[1], !.rangeTo = r[2], !.noElevAdj = na] :
        mx \in {nilGrade, 500}, mn \in {nilGrade, -200}, c \in {0, 300},
        r \in GradeRanges, na \in BOOLEAN}

\* clean tracks of a device that reports distance, grade, speed and power,
\* one level per point for the four metrics that can be smoothed: the
\* elevation above 100 m in cm, the grade in 1/100 %, the speed in cm/s
\* and the power in W.  The points are 3 m apart by the device, less than a
\* change of level; in a stalled track the second point repeats the device
\* distance of the first
SmoothLevels == {0, 360}

SmoothRaw(n, v, stalled) ==
    [i \in 1..n |->
        [GpxRaw(1000 * i, i, 10000 + v[i])
            EXCEPT !.distance = IF stalled /\ i = 2 THEN 300 ELSE 300 * i,
                   !.grade = v[i],
                   !.speed = v[i], !.power = v[i]]]

\* a window as parseArgs accepts it (an odd number)
SmoothWindows == {1, 3, 5}

SmoothRanges == {<<0, 0>>, <<2, 3>>}

\* the runs that smooth a metric, and those that also limit the grade
SmoothArgs ==
    {[DefaultArgs EXCEPT !.xmaWindow = w, !.xmaMethod = m, !.xmaMetric = x,
                         !.rangeFrom = r[1], !.rangeTo = r[2],
                         !.verbatim = v] :
        w \in SmoothWindows, m \in {"simple", "weighed"},
        x \in {"elevation", "grade", "power", "speed"},
        r \in SmoothRanges, v \in BOOLEAN}
    \cup
    {[DefaultArgs EXCEPT !.xmaWindow = 3, !.xmaMetric = x, !.maxGrade = 200] :
        x \in {"elevation", "grade"}}

\* clean tracks of a device that reports speed, grade and the four sensor
\* channels, near sea level: what one point carries (its elevation in cm
\* is the number of its grade, its temperature 50 below that of the other
\* sensors)
SensorChoices ==
    {[sensor |-> 0, speed |-> 0, grade |-> 0],
     [sensor |-> 50, speed |-> 300, grade |-> -200],
     [sensor |-> 80, speed |-> 500, grade |-> 400],
     [sensor |-> 50, speed |-> 0, grade |-> 400]}

SensorRaw(n, c) ==
    [i \in 1..n |->
        [GpxRaw(1000 * i, i, c[i].grade)
            EXCEPT !.distance = 1000 * i, !.grade = c[i].grade,
                   !.speed = c[i].speed, !.ambTemp = c[i].sensor - 50,
                   !.cadence = c[i].sensor, !.heartRate = c[i].sensor,
                   !.power = c[i].sensor]]

\* the channels the parser saw in the file: none, or all four
SensorMasks == {{}, {"cadence", "heartRate", "power", "ambTemp"}}

SensorArgs == {[DefaultArgs EXCEPT !.noElevAdj = na] : na \in BOOLEAN}

---------------------------------------------------------------------------
(* The specification *)

\* main() is entered with the list the parsers built from the raw points
\* r[1..n] and with one of the given sets of options
StartedWith(n, r, options, inMask) ==
    /\ pts = ParsedTrack(n, r)
    /\ input = pts
    /\ args \in options
    /\ trk = [NewGpsTrk(n) EXCEPT !.inMask = inMask]
    /\ pc = "start"
    /\ cur = 0
    /\ loc = NewTrimLocals
    /\ freed = {}
    /\ preCheck = <<>>
    /\ measured = <<>>
    /\ preSmooth = <<>>

\* the same from a file without sensor data
Started(n, r, options) == StartedWith(n, r, options, {})

Init ==
    \/ \E n \in 1..MaxPts : \E r \in [1..n -> TimingRaw] :
          Started(n, r, TimingArgs)
    \/ \E n \in 0..MaxNilPts : \E r \in [1..n -> MissingRaw] :
          Started(n, r, MissingArgs)
    \/ \E n \in 1..MaxPts : \E c \in [1..n -> DistanceChoices] :
          Started(n, DistanceRaw(n, c), DistanceArgs)
    \/ \E n \in 1..MaxTrimPts : \E dt \in [1..n -> {1000, 2000}], dev \in BOOLEAN :
          Started(n, TrimRaw(n, dt, dev), TrimArgs)
    \/ \E n \in 1..MaxGradePts : \E g \in [1..n -> GradeChoices] :
          Started(n, GradeRaw(n, g), GradeArgs)
    \/ \E n \in 1..MaxSmoothPts : \E v \in [1..n -> SmoothLevels] :
          \E stalled \in BOOLEAN :
             Started(n, SmoothRaw(n, v, stalled), SmoothArgs)
    \/ \E n \in 1..MaxSensorPts : \E c \in [1..n -> SensorChoices] :
          \E inMask \in SensorMasks :
             StartedWith(n, SensorRaw(n, c), SensorArgs, inMask)

Next ==
    \/ MainStart
    \/ TrimStep
    \/ MainAfterTrim
    \/ CheckStep
    \/ MainAfterCheck
    \/ CloseGapStep
    \/ MainAfterCloseGap
    \/ MetricsStep
    \/ MainAfterMetrics
    \/ LimitGradeStep
    \/ MainAfterLimitGrade
    \/ SmoothElevStep
    \/ MainAfterSmoothElev
    \/ SmoothStep
    \/ MainAfterSmooth
    \/ AdjElevStep
    \/ MainAfterAdjElev
    \/ MinMaxStep
    \/ MainAfterMinMax

Spec == Init /\ [][Next]_vars

---------------------------------------------------------------------------
(* Where a run is *)

\* the loop of the pass has ended and main() has not moved on
PassEnded(pass) == pc = pass /\ cur > Len(pts)

\* checkTrkPts has returned 0
CleanupDone == PassEnded("check")

\* compMetrics has returned
MetricsDone == PassEnded("metrics")

\* limitGrade has returned
LimitGradeDone == PassEnded("limitGrade")

\* trimTrkPts has returned
TrimDone == PassEnded("trim")

\* adjElev has returned
AdjElevDone == PassEnded("adjElev")

\* compMinMax has returned
MinMaxDone == PassEnded("minMax")

\* the ingested point with the given index
Ingested(index) == input[index + 1]

\* the indexes of the points of a list
Indexes(s) == {s[k].index : k \in 1..Len(s)}

---------------------------------------------------------------------------
(* C1 *)

\* C1 as stated: after checkTrkPts has returned 0, along the list every
\* timestamp is greater than the one before, and so is every distance of a
\* point that was ingested with one
C1_AsStated ==
    CleanupDone =>
        \A k \in 2..Len(pts) :
            /\ pts[k].timestamp > pts[k - 1].timestamp
            /\ (Ingested(pts[k].index).distance # 0
                    => pts[k].distance > pts[k - 1].distance)

\* C1, amended: unless the run is verbatim, after checkTrkPts has returned 0
\* every point of the list that has a timestamp (not 0) has a greater one
\* than the point before it, and every point that has a distance (not 0)
\* has a greater one than the point before it
C1_Monotonic ==
    (CleanupDone /\ ~args.verbatim) =>
        \A k \in 2..Len(pts) :
            /\ (pts[k].timestamp # 0 => pts[k].timestamp > pts[k - 1].timestamp)
            /\ (pts[k].distance # 0 => pts[k].distance > pts[k - 1].distance)

\* cleanup has discarded a point for its timestamp or distance and has kept
\* a later point that has both
C1_Witness ==
    /\ CleanupDone
    /\ ~args.verbatim
    /\ trk.numDiscTrkPts > 0
    /\ Len(pts) >= 2
    /\ pts[Len(pts)].timestamp # 0
    /\ pts[Len(pts)].distance # 0
    /\ pts[Len(pts)].index = Len(input) - 1

---------------------------------------------------------------------------
(* C2 *)

\* C2 as stated: after limitGrade every point after the first that is
\* within the range has a grade no greater than the maximum grade and no
\* smaller than the minimum grade, whichever is configured and whether or
\* not a maximum grade change is configured too, and the grade of every
\* point after the first is between -99.9 and 99.9
C2_AsStated ==
    LimitGradeDone =>
        \A k \in 2..Len(pts) :
            /\ (pointWithinRange(pts[k]) /\ args.maxGrade # nilGrade
                    => pts[k].grade <= args.maxGrade)
            /\ (pointWithinRange(pts[k]) /\ args.minGrade # nilGrade
                    => pts[k].grade >= args.minGrade)
            /\ pts[k].grade >= -gradeLimit
            /\ pts[k].grade <= gradeLimit

---------------------------------------------------------------------------
(* C3 *)

\* C3 as stated: with a maximum grade change configured, after limitGrade
\* the grades of any two adjacent points that are both within the range
\* differ by no more than that maximum
C3_AsStated ==
    (LimitGradeDone /\ args.maxGradeChange # 0) =>
        \A k \in 2..Len(pts) :
            (pointWithinRange(pts[k - 1]) /\ pointWithinRange(pts[k]))
                => Abs(pts[k].grade - pts[k - 1].grade) <= args.maxGradeChange

---------------------------------------------------------------------------
(* C5 *)

\* the indexes a trim request names
TrimRange == {i \in 0..Len(input) : args.trimFrom <= i /\ i <= args.trimTo}

\* C5 as stated: after trimTrkPts, for every request the options accept
\* (from = to included), the points removed are those ingested with an
\* index within the request, no other point is removed, and numTrimTrkPts
\* is the number of points removed
C5_AsStated ==
    (TrimDone /\ args.trimFrom >= 1) =>
        /\ Indexes(pts) = Indexes(input) \ TrimRange
        /\ trk.numTrimTrkPts = Cardinality(Indexes(input) \cap TrimRange)

---------------------------------------------------------------------------
(* C4 *)

\* the list s after compMetrics has gone over its first k points without
\* discarding any
RECURSIVE MeasuredUpTo(_, _)
MeasuredUpTo(s, k) ==
    IF k <= 1 THEN s
    ELSE LET m == MeasuredUpTo(s, k - 1)
         IN  SetAt(m, k, Measured(m[k - 1], m[k]))

RECURSIVE SumDeltaT(_, _)
SumDeltaT(s, k) == IF k <= 1 THEN 0 ELSE s[k].deltaT + SumDeltaT(s, k - 1)

RECURSIVE SumDist(_, _)
SumDist(s, k) == IF k <= 1 THEN 0 ELSE s[k].dist + SumDist(s, k - 1)

\* the track as the run without the trim request measures it
Untrimmed == MeasuredUpTo(input, Len(input))

\* neither cleanup nor compMetrics finds a point of the ingested track to
\* discard: every point has elevation and time, and moves on in time, in
\* distance and in space
CleanInput ==
    \A k \in 2..Len(input) :
        /\ input[k].elevation # nilElev
        /\ input[k].timestamp > input[k - 1].timestamp
        /\ (input[k].distance # 0 => input[k].distance > input[k - 1].distance)
        /\ compDistance(input[k - 1], input[k]) > 0

\* C4 as stated: for a trim request [a, b] with 1 <= a <= b whose two
\* points exist, b being the last point included, the total time of the
\* track is the total time of the untrimmed track less timestamp[b] -
\* timestamp[a], and the total distance is the total distance of the
\* untrimmed track less distance[b] - distance[a]
C4_AsStated ==
    (/\ MetricsDone
     /\ CleanInput
     /\ args.trimFrom >= 1
     /\ args.trimTo <= Len(input) - 1) =>
        LET a == args.trimFrom + 1
            b == args.trimTo + 1
            n == Len(input)
        IN  /\ trk.time = SumDeltaT(Untrimmed, n)
                            - (Untrimmed[b].timestamp - Untrimmed[a].timestamp)
            /\ trk.distance = SumDist(Untrimmed, n)
                            - (Untrimmed[b].distance - Untrimmed[a].distance)

---------------------------------------------------------------------------
(* C6 *)

\* two points at the same latitude, longitude and elevation
SamePlace(p, q) ==
    /\ p.latitude = q.latitude
    /\ p.longitude = q.longitude
    /\ p.elevation = q.elevation

\* the maximal runs of two or more consecutive points of s at the same
\* place, as pairs of their first and last positions
RunsOf(s) ==
    {r \in (1..Len(s)) \X (1..Len(s)) :
        /\ r[1] < r[2]
        /\ \A k \in r[1]..r[2] : SamePlace(s[r[1]], s[k])
        /\ (r[1] = 1 \/ ~SamePlace(s[r[1] - 1], s[r[1]]))
        /\ (r[2] = Len(s) \/ ~SamePlace(s[r[2]], s[r[2] + 1]))}

\* the point cleanup found at position k is still in the list
Survives(k) == preCheck[k].index \in Indexes(pts)

\* the position of the last surviving point before position k
PrevSurvivor(k) ==
    CHOOSE j \in 1..(k - 1) :
        Survives(j) /\ \A m \in (j + 1)..(k - 1) : ~Survives(m)

\* C6 as stated: unless the run is verbatim, of every maximal run of k
\* consecutive points at the same place cleanup keeps the first and removes
\* the other k - 1, and numDupTrkPts is the sum of k - 1 over the runs
C6_AsStated ==
    (CleanupDone /\ ~args.verbatim) =>
        /\ \A r \in RunsOf(preCheck) :
              /\ Survives(r[1])
              /\ \A k \in (r[1] + 1)..r[2] : ~Survives(k)
        /\ trk.numDupTrkPts =
              Cardinality({k \in 2..Len(preCheck) :
                              SamePlace(preCheck[k - 1], preCheck[k])})

\* C6, amended: unless the run is verbatim, of every maximal run of
\* consecutive points at the same place whose first point survives cleanup
\* all the other points are removed, and numDupTrkPts is the number of
\* points that were at the same place as the last surviving point before
\* them, none of which survives
C6_Runs ==
    (CleanupDone /\ ~args.verbatim) =>
        /\ \A r \in RunsOf(preCheck) :
              Survives(r[1]) => \A k \in (r[1] + 1)..r[2] : ~Survives(k)
        /\ \A k \in 2..Len(preCheck) :
              SamePlace(preCheck[PrevSurvivor(k)], preCheck[k]) => ~Survives(k)
        /\ trk.numDupTrkPts =
              Cardinality({k \in 2..Len(preCheck) :
                              SamePlace(preCheck[PrevSurvivor(k)], preCheck[k])})

\* cleanup has met a run that does not start the track, has kept its first
\* point and has counted a duplicate
C6_Witness ==
    /\ CleanupDone
    /\ ~args.verbatim
    /\ trk.numDupTrkPts = 1
    /\ \E r \in RunsOf(preCheck) : r[1] >= 2 /\ Survives(r[1])

---------------------------------------------------------------------------
(* C7 *)

\* main() has got past checkTrkPts
PastCleanup ==
    \/ CleanupDone
    \/ pc \in {"closeGap", "smoothElev", "metrics", "limitGrade", "smooth",
              "adjElev", "minMax", "done"}

\* the ingested track is one the checks of main() after ingestion refuse:
\* no point, a first point without elevation, or a first point without
\* timestamp while the start time or the speed is not set
RefusedAtStart ==
    \/ Len(input) = 0
    \/ input[1].elevation = nilElev
    \/ (input[1].timestamp = 0 /\ (args.startTime = 0 \/ args.setSpeed = 0))

\* cleanup reaches, at position k of the list it received, a point without
\* elevation, or without timestamp while no speed is set: no such point
\* comes before it
RefusedAt(k) ==
    LET lacks(j) == \/ preCheck[j].elevation = nilElev
                    \/ (preCheck[j].timestamp = 0 /\ args.setSpeed = 0)
    IN  lacks(k) /\ \A j \in 2..(k - 1) : ~lacks(j)

\* nothing has been derived: no total, no end time, no interval of a point
NothingDerived ==
    /\ trk.time = 0
    /\ trk.distance = 0
    /\ trk.endTime = 0
    /\ \A k \in 1..Len(pts) :
          pts[k].dist = 0 /\ pts[k].run = 0 /\ pts[k].deltaT = 0

\* C7: the run is aborted, with nothing derived, exactly when the track is
\* empty, or its first point has no elevation, or its first point has no
\* timestamp while the start time or the speed is not set, or cleanup
\* reaches a point without elevation or without timestamp while no speed
\* is set; a run that has none of these gets past cleanup, whatever
\* duplicates and non-increasing timestamps or distances it has
C7_AbortsExactly ==
    /\ pc = "abort" =>
          /\ NothingDerived
          /\ \/ RefusedAtStart
             \/ \E k \in 2..Len(preCheck) :
                   /\ RefusedAt(k)
                   /\ pts[cur] = preCheck[k]
    /\ PastCleanup =>
          /\ ~RefusedAtStart
          /\ \A k \in 2..Len(preCheck) : ~RefusedAt(k)

\* cleanup has discarded a point and has then aborted at a later point
\* that has elevation but no timestamp
C7_Witness ==
    /\ pc = "abort"
    /\ Len(preCheck) >= 3
    /\ Len(pts) < Len(preCheck)
    /\ preCheck[Len(preCheck)].timestamp = 0
    /\ preCheck[Len(preCheck)].elevation # nilElev

---------------------------------------------------------------------------
(* C8 *)

\* the three counters of removed points, together
Removals(t) == t.numTrimTrkPts + t.numDupTrkPts + t.numDiscTrkPts

\* C8: a step of trimTrkPts, checkTrkPts or compMetrics that removes a
\* point from the list also increments numTrimTrkPts, numDupTrkPts or
\* numDiscTrkPts; no step shortens the list and leaves the three as they
\* were
C8_RemovalsCounted ==
    [][Len(pts') < Len(pts) =>
          /\ Removals(trk') > Removals(trk)
          /\ trk'.numTrimTrkPts >= trk.numTrimTrkPts
          /\ trk'.numDupTrkPts >= trk.numDupTrkPts
          /\ trk'.numDiscTrkPts >= trk.numDiscTrkPts]_vars

\* compMetrics has discarded a stop (a point at the latitude and longitude
\* of the point before it, at another elevation) of a track in which
\* cleanup found nothing to discard
C8_Witness ==
    /\ pc = "metrics"
    /\ Len(preCheck) = Len(input)
    /\ Len(pts) = Len(preCheck) - 1
    /\ trk.numDiscTrkPts = 1
    /\ trk.numDupTrkPts = 0
    /\ \E k \in 2..Len(preCheck) :
          /\ preCheck[k].index \notin Indexes(pts)
          /\ preCheck[k].latitude = preCheck[k - 1].latitude
          /\ preCheck[k].longitude = preCheck[k - 1].longitude
          /\ preCheck[k].elevation # preCheck[k - 1].elevation
          /\ preCheck[k].timestamp > preCheck[k - 1].timestamp
          /\ preCheck[k].distance = 0

---------------------------------------------------------------------------
(* C9 *)

\* the ingested track is a route: none of its points has a timestamp
Route == Len(input) >= 1 /\ \A k \in 1..Len(input) : input[k].timestamp = 0

\* C9 as stated: for a route run with a start time and a speed v > 0, after
\* compMetrics the first point has the start time as its timestamp, and
\* every later point has the timestamp of the point before it plus its
\* distance from that point over v, which is greater
C9_AsStated ==
    (MetricsDone /\ Route /\ args.startTime # 0 /\ args.setSpeed > 0) =>
        /\ pts[1].timestamp = args.startTime
        /\ \A k \in 2..Len(pts) :
              /\ pts[k].timestamp
                    = pts[k - 1].timestamp + FDiv(pts[k].dist, args.setSpeed)
              /\ pts[k].timestamp > pts[k - 1].timestamp

---------------------------------------------------------------------------
(* C10 *)

\* C10 as stated: with a speed v set, after compMetrics every point after
\* the first has for time interval its distance from the point before it
\* over v, whether or not it was ingested with a timestamp
C10_AsStated ==
    (MetricsDone /\ args.setSpeed > 0) =>
        \A k \in 2..Len(pts) :
            pts[k].deltaT = FDiv(pts[k].dist, args.setSpeed)

---------------------------------------------------------------------------
(* C11 *)

\* only a maximum grade takes part in limitGrade and nothing is smoothed (a
\* minimum grade, if there is one, is not above the maximum)
OnlyMaxGrade ==
    /\ args.maxGrade # nilGrade
    /\ args.maxGradeChange = 0
    /\ args.xmaWindow = 0
    /\ (args.minGrade # nilGrade => args.minGrade <= args.maxGrade)

\* the point at position k is within the range and compMetrics left it a
\* grade above the maximum grade
AboveMaxGrade(k) ==
    /\ OnlyMaxGrade
    /\ pointWithinRange(pts[k])
    /\ measured[k].grade > args.maxGrade

\* the positions of the points whose elevation is not the one compMetrics
\* left them
ElevChanged == {k \in 2..Len(pts) : pts[k].elevation # measured[k].elevation}

---------------------------------------------------------------------------
(* C12 *)

\* an iteration of the loop of adjElev on a point without adjGrade leaves
\* the list and numElevAdj as they were
UnflaggedUntouched ==
    (pc = "adjElev" /\ cur <= Len(pts) /\ ~pts[cur].adjGrade) =>
        (pts' = pts /\ trk'.numElevAdj = trk.numElevAdj)

\* adjElev called again on the list it has left changes no elevation, rise
\* or dist, and leaves numElevAdj as it is
SecondRunSame ==
    LET again == AdjElevFrom(pts, trk, 2)
    IN  /\ \A k \in 1..Len(pts) :
              /\ again.pts[k].elevation = pts[k].elevation
              /\ again.pts[k].rise = pts[k].rise
              /\ again.pts[k].dist = pts[k].dist
        /\ again.trk.numElevAdj = trk.numElevAdj

\* C12: adjElev is idempotent: an iteration on a point whose adjGrade is
\* false modifies no point and does not increment numElevAdj, and a second
\* adjElev on the list the first one left changes no elevation, rise or
\* dist and leaves numElevAdj unchanged
C12_Idempotent ==
    /\ [][UnflaggedUntouched]_vars
    /\ [](AdjElevDone => SecondRunSame)

\* adjElev has returned after it adjusted a point and passed over another
\* one, within the range, that has no adjGrade
C12_Witness ==
    /\ AdjElevDone
    /\ trk.numElevAdj > 0
    /\ \E k \in 2..Len(pts) : pointWithinRange(pts[k]) /\ ~pts[k].adjGrade

---------------------------------------------------------------------------
(* C13 *)

\* smoothMetric has returned
SmoothDone == PassEnded("smoothElev") \/ PassEnded("smooth")

\* the sum of the smoothed metric over the positions a..b of the list s
RECURSIVE SumOfMetric(_, _, _)
SumOfMetric(s, a, b) ==
    IF a > b THEN 0
    ELSE xmaGetVal(s[b], args.xmaMetric) + SumOfMetric(s, a, b - 1)

\* the point at position k was visited by smoothMetric and has n points
\* before it and n points after it
InteriorPoint(k, n) ==
    /\ k >= 2
    /\ pointWithinRange(pts[k])
    /\ k - n >= 1
    /\ k + n <= Len(pts)

\* C13 as stated: with the simple method and the window 2n+1, after
\* smoothMetric every visited point with n points on either side has for
\* value the mean of the values the points of its window had before
\* smoothMetric; with the window 1 every point has the value and the
\* adjGrade it had
C13_AsStated ==
    (SmoothDone /\ args.xmaMethod = "simple") =>
        LET n == (args.xmaWindow - 1) \div 2
        IN  /\ \A k \in 1..Len(pts) :
                  InteriorPoint(k, n) =>
                      xmaGetVal(pts[k], args.xmaMetric)
                        = TDiv(SumOfMetric(preSmooth, k - n, k + n),
                               args.xmaWindow)
            /\ args.xmaWindow = 1 => pts = preSmooth

---------------------------------------------------------------------------
(* C14 *)

\* no point has been removed since checkTrkPts was called, and neither
\* counter has moved
NothingRemoved ==
    /\ trk.numDupTrkPts = 0
    /\ trk.numDiscTrkPts = 0
    /\ PastCleanup \/ pc = "check" => Indexes(pts) = Indexes(preCheck)

\* every point has the elevation it was ingested with and, once
\* compMetrics has returned, the grade compMetrics gave it
NothingAltered ==
    /\ \A k \in 1..Len(pts) : pts[k].elevation = Ingested(pts[k].index).elevation
    /\ measured # <<>> => \A k \in 1..Len(pts) : pts[k].grade = measured[k].grade
    /\ trk.numElevAdj = 0

AdjustmentsAsked ==
    \/ args.maxGrade # nilGrade
    \/ args.minGrade # nilGrade
    \/ args.maxGradeChange # 0
    \/ args.xmaWindow # 0

---------------------------------------------------------------------------
(* C15 *)

\* main() has run every pass
PipelineDone == pc = "done"

\* the point at position k was ingested with a device distance
HasDeviceDistance(k) == Ingested(pts[k].index).distance # 0

\* compMetrics took "Bogus data?" for the point at position k: a device
\* dist that is not null and not above the absolute rise
TookFallback(k) ==
    /\ HasDeviceDistance(k)
    /\ measured[k].dist # 0
    /\ measured[k].dist <= Abs(measured[k].rise)

\* compMetrics kept the point at position k as a stop (verbatim mode)
KeptAsStop(k) ==
    IF HasDeviceDistance(k) THEN measured[k].dist = 0 ELSE measured[k].run = 0

\* C15 as stated: at the end of the pipeline, with or without verbatim and
\* with or without adjElev, every point after the first has a dist no
\* smaller than its absolute rise, except the points for which compMetrics
\* found the device dist not above the absolute rise, whose run is their
\* dist
C15_AsStated ==
    PipelineDone =>
        \A k \in 2..Len(pts) :
            \/ pts[k].dist >= Abs(pts[k].rise)
            \/ TookFallback(k) /\ pts[k].run = pts[k].dist

\* C15: the same, except also the points compMetrics kept as stops in
\* verbatim mode, whose dist and run are null whatever their rise
C15_DistCoversRise ==
    PipelineDone =>
        \A k \in 2..Len(pts) :
            \/ pts[k].dist >= Abs(pts[k].rise)
            \/ TookFallback(k) /\ pts[k].run = pts[k].dist
            \/ /\ args.verbatim
               /\ KeptAsStop(k)
               /\ pts[k].dist = 0
               /\ pts[k].run = 0

\* the pipeline has ended on a list with a point that took the fallback and
\* kept a dist below its absolute rise, and with a point adjElev has given
\* a new elevation
C15_Witness ==
    /\ PipelineDone
    /\ \E k \in 2..Len(pts) :
          TookFallback(k) /\ pts[k].dist < Abs(pts[k].rise)
    /\ \E k \in 2..Len(pts) : pts[k].elevation # measured[k].elevation

---------------------------------------------------------------------------
(* C16 *)

\* the sum of the positive rises (up = TRUE) or of the absolute values of
\* the negative rises (up = FALSE) of the points 2..k of the list
RECURSIVE SumRise(_, _)
SumRise(up, k) ==
    IF k < 2 THEN 0
    ELSE SumRise(up, k - 1)
           + (IF up /\ pts[k].rise > 0 THEN pts[k].rise
              ELSE IF ~up /\ pts[k].rise < 0 THEN -pts[k].rise
              ELSE 0)

\* C16: after compMinMax elevGain is the sum of the rise of the points
\* whose rise is positive and elevLoss the sum of the absolute rise of the
\* points whose rise is negative, over the final rise of the points after
\* the first
C16_GainLoss ==
    MinMaxDone =>
        /\ trk.elevGain = SumRise(TRUE, Len(pts))
        /\ trk.elevLoss = SumRise(FALSE, Len(pts))

\* compMinMax has returned with both a gain and a loss, after adjElev has
\* given a point a new rise
C16_Witness ==
    /\ MinMaxDone
    /\ trk.elevGain > 0
    /\ trk.elevLoss > 0
    /\ \E k \in 2..Len(pts) : pts[k].rise # measured[k].rise

---------------------------------------------------------------------------
(* C17 *)

\* main() has got past its checks after ingestion and has not returned -1
PastIngestion ==
    pc \in {"trim", "check", "closeGap", "smoothElev", "metrics", "limitGrade",
            "smooth", "adjElev", "minMax", "done"}

---------------------------------------------------------------------------
(* C18 *)

\* the point of the given index as checkTrkPts received it, which is how
\* closeTimeGap receives it when checkTrkPts has kept it
BeforeGap(index) ==
    CHOOSE p \in {preCheck[j] : j \in 1..Len(preCheck)} : p.index = index

\* the timestamp the point at position k had before closeTimeGap
OldTime(k) == BeforeGap(pts[k].index).timestamp

\* a step of closeTimeGap keeps every point of the list
GapKeepsPoints ==
    pc = "closeGap" => Len(pts') = Len(pts) /\ Indexes(pts') = Indexes(pts)

\* the positions, after the first, of the points with the index to close
\* the gap at
GapTargets == {k \in 2..Len(pts) : pts[k].index = args.closeGap}

\* what closeTimeGap has done when it returns
GapClosed ==
    /\ \A t \in GapTargets :
          /\ \A k \in 1..(t - 1) : pts[k].timestamp = OldTime(k)
          /\ pts[t].timestamp = pts[t - 1].timestamp + oneSecond
          /\ \A k \in (t + 1)..Len(pts) :
                pts[k].timestamp - pts[k - 1].timestamp
                    = OldTime(k) - OldTime(k - 1)
    /\ GapTargets = {} => \A k \in 1..Len(pts) : pts[k] = BeforeGap(pts[k].index)

\* C18: closeTimeGap removes no point; when a point after the first has
\* the index to close the gap at, the timestamps of the points before it
\* are unchanged, its timestamp is that of its predecessor plus 1 s, and
\* the time between any two adjacent later points is what it was; when no
\* such point is in the list, no point is changed
C18_GapClosed ==
    /\ [][GapKeepsPoints]_vars
    /\ [](PassEnded("closeGap") => GapClosed)

\* closeTimeGap has returned after it closed a gap of more than 1 s at the
\* third point
C18_Witness ==
    /\ PassEnded("closeGap")
    /\ \E t \in GapTargets : t = 3 /\ OldTime(t) - OldTime(t - 1) > oneSecond

---------------------------------------------------------------------------
(* C19 *)

SetMin(S) == CHOOSE x \in S : \A y \in S : x <= y

SetMax(S) == CHOOSE x \in S : \A y \in S : x >= y

\* the values of a field over the points compMinMax sweeps
SweptValues(field) == {pts[k][field] : k \in 2..Len(pts)}

\* the pointer designates a swept point whose field has the value
Designates(ptr, field, value) ==
    \E k \in 2..Len(pts) : pts[k].index = ptr /\ pts[k][field] = value

\* the minimum and the maximum of a channel are those of the values swept
\* (the zeros left out of the minimum where the channel says so), and the
\* four fields of GpsTrk say so
ExtremesOf(field, skipZero, max, maxPt, min, minPt) ==
    LET all == SweptValues(field)
        low == IF skipZero THEN all \ {0} ELSE all
    IN  /\ all # {} =>
              /\ trk[max] = SetMax(all)
              /\ Designates(trk[maxPt], field, trk[max])
        /\ low # {} =>
              /\ trk[min] = SetMin(low)
              /\ Designates(trk[minPt], field, trk[min])

\* C19 as stated: after compMinMax, for the grade and for every sensor
\* channel of inMask, the minimum is the smallest value swept (zeros left
\* out for cadence, heart rate and power) and the maximum the largest,
\* whatever the order of the values, and each of the pointers is set and
\* designates a point of the list with that value
C19_AsStated ==
    MinMaxDone =>
        /\ ExtremesOf("grade", FALSE,
                      "maxGrade", "maxGradeTrkPt", "minGrade", "minGradeTrkPt")
        /\ "cadence" \in trk.inMask =>
              ExtremesOf("cadence", TRUE, "maxCadence", "maxCadenceTrkPt",
                         "minCadence", "minCadenceTrkPt")
        /\ "heartRate" \in trk.inMask =>
              ExtremesOf("heartRate", TRUE, "maxHeartRate", "maxHeartRateTrkPt",
                         "minHeartRate", "minHeartRateTrkPt")
        /\ "power" \in trk.inMask =>
              ExtremesOf("power", TRUE, "maxPower", "maxPowerTrkPt",
                         "minPower", "minPowerTrkPt")
        /\ "ambTemp" \in trk.inMask =>
              ExtremesOf("ambTemp", FALSE, "maxTemp", "maxTempTrkPt",
                         "minTemp", "minTempTrkPt")

---------------------------------------------------------------------------
(* C20 *)

\* the positions of the swept points with a null value of the field
ZeroAt(field) == {k \in 2..Len(pts) : pts[k][field] = 0}

\* a null value swept is a candidate for the minimum of the field: when the
\* largest value swept is not null, the minimum is null or below
ZeroCounts(field, min) ==
    (ZeroAt(field) # {} /\ SetMax(SweptValues(field)) # 0) => trk[min] <= 0

NotNewMax(field, k, initMax) ==
    \/ pts[k][field] <= initMax
    \/ \E j \in 2..(k - 1) : pts[j][field] >= pts[k][field]

\* the minimum of the field is the smallest of its initial value and of the
\* values that did not raise the maximum when swept, the null ones left
\* out where the channel says so
MinimumOf(field, skipZero, min, initMin) ==
    trk[min] = SetMin({initMin} \cup
                      {pts[k][field] : k \in
                          {j \in 2..Len(pts) :
                              /\ NotNewMax(field, j, -initMin)
                              /\ skipZero => pts[j][field] # 0}})

---------------------------------------------------------------------------
(* C21 *)

\* half the window: the number of neighbours on either side
HalfWindow == (args.xmaWindow - 1) \div 2

\* <<sum of weight * value, sum of weight>> over the positions a..b of the
\* list s that exist, for the window around position k, where the centre
\* has the weight n + 1 and the neighbour d positions away the weight
\* n - d + first (first = 1: the nearest neighbour has the weight n;
\* first = 0: it has the weight n - 1 and the outermost one 0)
RECURSIVE Weighted(_, _, _, _, _)
Weighted(s, k, a, b, first) ==
    IF a > b THEN <<0, 0>>
    ELSE LET r == Weighted(s, k, a, b - 1, first)
             n == HalfWindow
             w == IF b = k THEN n + 1 ELSE n - Abs(b - k) + first
         IN  IF b < 1 \/ b > Len(s) THEN r
             ELSE <<r[1] + w * xmaGetVal(s[b], args.xmaMetric), r[2] + w>>

\* a step of smoothMetric with the weighed method, on a point within the
\* range, writes the weighted mean of the values the points of the window
\* have when the point is visited, and its divisor is positive
WeightedStep(first) ==
    (/\ pc \in {"smoothElev", "smooth"}
     /\ pc' = pc
     /\ args.xmaMethod = "weighed"
     /\ pointWithinRange(pts[cur])) =>
        LET r == Weighted(pts, cur, cur - HalfWindow, cur + HalfWindow, first)
        IN  /\ r[2] > 0
            /\ xmaGetVal(pts'[cur], args.xmaMetric) = TDiv(r[1], r[2])

\* C21 as stated: with the weighed method and the window 2n+1, the value
\* written to a point is the weighted mean where the point has the weight
\* n+1 and the neighbour i positions away the weight n-i, so that the
\* outermost neighbour counts for nothing; the neighbours the list does
\* not have are left out of the sum and of the divisor, which is not 0
C21_AsStated == [][WeightedStep(0)]_vars

\* C21: the same, where the neighbour i positions away (1 <= i <= n) has
\* the weight n-i+1: the nearest neighbour has the weight n and the
\* outermost one the weight 1
C21_WeightedMean == [][WeightedStep(1)]_vars

\* smoothMetric has returned, with the weighed method and the window 5,
\* after it gave a new value to the second of four points or more, which
\* has one neighbour before it and two after it
C21_Witness ==
    /\ SmoothDone
    /\ args.xmaMethod = "weighed"
    /\ args.xmaWindow = 5
    /\ Len(pts) >= 4
    /\ pointWithinRange(pts[2])
    /\ xmaGetVal(pts[2], args.xmaMetric) # xmaGetVal(preSmooth[2], args.xmaMetric)

---------------------------------------------------------------------------
(* C22 *)

\* a range is configured and the index of the point is not in it
OutsideRange(p) ==
    /\ args.rangeFrom # 0
    /\ (p.index < args.rangeFrom \/ p.index > args.rangeTo)

\* a step of limitGrade, smoothMetric or adjElev leaves the points outside
\* the range with the grade, adjGrade, elevation, rise, dist, power and
\* speed they have
RangeFrame ==
    pc \in {"limitGrade", "smoothElev", "smooth", "adjElev"} =>
        /\ Len(pts') = Len(pts)
        /\ \A k \in 1..Len(pts) :
              OutsideRange(pts[k]) =>
                  /\ pts'[k].grade = pts[k].grade
                  /\ pts'[k].adjGrade = pts[k].adjGrade
                  /\ pts'[k].elevation = pts[k].elevation
                  /\ pts'[k].rise = pts[k].rise
                  /\ pts'[k].dist = pts[k].dist
                  /\ pts'[k].power = pts[k].power
                  /\ pts'[k].speed = pts[k].speed

\* without a range every point after the first is eligible: a maximum
\* grade alone is applied to all of them
AllEligible ==
    (LimitGradeDone /\ args.rangeFrom = 0 /\ OnlyMaxGrade) =>
        \A k \in 2..Len(pts) : pts[k].grade <= args.maxGrade

\* the sum of the grades of the points 2..k of the list
RECURSIVE SumGrade(_)
SumGrade(k) == IF k < 2 THEN 0 ELSE SumGrade(k - 1) + pts[k].grade

\* with a range, checkTrkPts, compMetrics and compMinMax still work on
\* every point: no point left by checkTrkPts repeats the distance or the
\* time of its predecessor, every point left by compMetrics has its rise,
\* and compMinMax has summed the grades of all the points after the first
AllPointsSwept ==
    args.rangeFrom # 0 =>
        /\ (CleanupDone /\ ~args.verbatim) =>
              \A k \in 2..Len(pts) :
                  /\ ~IsDuplicate(pts[k - 1], pts[k])
                  /\ ~BadTimestamp(pts[k - 1], pts[k])
                  /\ ~BadDistance(pts[k - 1], pts[k])
        /\ MetricsDone =>
              \A k \in 2..Len(pts) :
                  pts[k].rise = pts[k].elevation - pts[k - 1].elevation
        /\ MinMaxDone => trk.grade = SumGrade(Len(pts))

\* C22: with a range, limitGrade, smoothMetric and adjElev change neither
\* the grade, adjGrade, elevation, rise, dist, power nor speed of a point
\* whose index is outside it; without a range every point after the first
\* is eligible; checkTrkPts, compMetrics and compMinMax work on all the
\* points whatever the range
C22_RangeScopes ==
    /\ [][RangeFrame]_vars
    /\ [](AllEligible /\ AllPointsSwept)

\* with a range, smoothMetric has given a new value to a point within the
\* range and has passed over a point after the first that is outside it
C22_Witness ==
    /\ SmoothDone
    /\ args.rangeFrom # 0
    /\ \E k \in 2..Len(pts) : OutsideRange(pts[k])
    /\ \E k \in 2..Len(pts) :
          /\ ~OutsideRange(pts[k])
          /\ xmaGetVal(pts[k], args.xmaMetric)
                 # xmaGetVal(preSmooth[k], args.xmaMetric)

---------------------------------------------------------------------------
(* C23 *)

\* C23: after compMetrics the end time of the activity is the timestamp of
\* the last point of the list, verbatim or not, also when the last point is
\* a stop and when the list has a single point
C23_AsStated ==
    MetricsDone => trk.endTime = pts[Len(pts)].timestamp

---------------------------------------------------------------------------
(* C24 *)

\* the passes the claim orders
OrderedPasses == {"smoothElev", "metrics", "limitGrade", "smooth", "adjElev"}

\* the place of each pass when every smoothing comes before limitGrade
SmoothingFirst ==
    [p \in OrderedPasses |->
        CASE p = "smoothElev" -> 1
          [] p = "metrics"    -> 2
          [] p = "smooth"     -> 3
          [] p = "limitGrade" -> 4
          [] p = "adjElev"    -> 5]

\* the place of each pass when the smoothing of a derived metric comes
\* after limitGrade
LimitingFirst ==
    [p \in OrderedPasses |->
        CASE p = "smoothElev" -> 1
          [] p = "metrics"    -> 2
          [] p = "limitGrade" -> 3
          [] p = "smooth"     -> 4
          [] p = "adjElev"    -> 5]

\* a pass starts when the pass before it has swept the whole list, and it
\* has a later place than the pass before it
InOrder(place) ==
    (pc # pc' /\ pc \in OrderedPasses /\ pc' \in OrderedPasses) =>
        /\ cur > Len(pts)
        /\ place[pc] < place[pc']

\* C24: the passes run in one fixed order, in which the smoothing of the
\* elevation ends before compMetrics starts, every smoothing (of the
\* elevation, grade, power or speed) ends before limitGrade starts, and
\* adjElev starts after the last pass that can change a grade
C24_AsStated == [][InOrder(SmoothingFirst)]_vars

\* C24, amended: the smoothing of the elevation ends before compMetrics
\* starts, limitGrade ends before the smoothing of the grade, power or
\* speed starts, and adjElev starts after both
C24_PassOrder == [][InOrder(LimitingFirst)]_vars

\* adjElev runs after both a limit on the grade and a smoothing of the
\* grade were requested
C24_Witness ==
    /\ pc = "adjElev"
    /\ args.maxGrade # nilGrade
    /\ args.xmaWindow # 0
    /\ args.xmaMetric = "grade"

---------------------------------------------------------------------------
(* C25 *)

\* C25: unless the run is verbatim, compMetrics finds no point left by
\* checkTrkPts with a time interval that is not positive or with a
\* cumulative distance below that of its predecessor, whatever the mix of
\* points with and without timestamp or device distance
C25_AsStated ==
    (pc = "metrics" /\ ~args.verbatim) =>
        \A k \in 2..(cur - 1) :
            /\ pts[k].deltaT > 0
            /\ pts[k].distance >= pts[k - 1].distance

---------------------------------------------------------------------------
(* C26 *)

\* C26: when a pass has swept the list, and when the pipeline has ended,
\* numTrkPts is the number of points in the list, also after trimTrkPts,
\* checkTrkPts or compMetrics removed points
C26_AsStated ==
    (PipelineDone \/ (pc \notin {"start", "abort"} /\ cur > Len(pts))) =>
        trk.numTrkPts = Len(pts)

---------------------------------------------------------------------------
(* C27 *)

\* C27: when the pipeline has ended, the counters of duplicate, discarded
\* and trimmed points add up to the number of ingested points less the
\* number of points in the list: a removed point is counted once, also
\* when it is removed for more than one reason
C27_AsStated ==
    PipelineDone =>
        trk.numDupTrkPts + trk.numDiscTrkPts + trk.numTrimTrkPts
            = Len(input) - Len(pts)

---------------------------------------------------------------------------
(* C28 *)

\* a step of a sweep that removes the point under the cursor leaves the
\* cursor on the successor of that point
CursorOnSuccessor ==
    (pc' = pc /\ Len(pts') < Len(pts)) =>
        /\ cur' = cur
        /\ pts' = RemoveAt(pts, cur)

\* trimTrkPts is about to read the timestamp and the distance of its
\* baseline: the point under its cursor is the one at trimTo
BaselineRead ==
    /\ pc = "trim"
    /\ cur <= Len(pts)
    /\ pts[cur].index # args.trimFrom
    /\ pts[cur].index = args.trimTo

\* the pointers of GpsTrk to the points that hold a record
RecordHolders ==
    {trk.maxDeltaDTrkPt, trk.maxDeltaTTrkPt, trk.maxDeltaGTrkPt,
     trk.maxCadenceTrkPt, trk.minCadenceTrkPt,
     trk.maxHeartRateTrkPt, trk.minHeartRateTrkPt,
     trk.maxPowerTrkPt, trk.minPowerTrkPt,
     trk.maxSpeedTrkPt, trk.minSpeedTrkPt,
     trk.maxTempTrkPt, trk.minTempTrkPt,
     trk.maxElevTrkPt, trk.minElevTrkPt,
     trk.maxGradeTrkPt, trk.minGradeTrkPt}

\* C28: no pass uses a point that was removed: a removal leaves the cursor
\* of the sweep on the successor of the removed point, the baseline of
\* trimTrkPts is in the list when its timestamp and distance are read at
\* trimTo, and when the pipeline has ended every pointer of GpsTrk to a
\* record holder that is set designates a point of the list
C28_AsStated ==
    /\ [][CursorOnSuccessor]_vars
    /\ [](BaselineRead => loc.p0 \in Indexes(pts))
    /\ [](PipelineDone => RecordHolders \subseteq Indexes(pts) \cup {-1})

---------------------------------------------------------------------------
(* C29 *)

\* C29: when the pipeline has ended, also after adjElev changed elevations,
\* the rise of every point after the first is its elevation less the
\* elevation of its predecessor, and so the gain less the loss is the
\* elevation of the last point less that of the first
C29_AsStated ==
    PipelineDone =>
        /\ \A k \in 2..Len(pts) :
              pts[k].rise = pts[k].elevation - pts[k - 1].elevation
        /\ trk.elevGain - trk.elevLoss
              = pts[Len(pts)].elevation - pts[1].elevation

---------------------------------------------------------------------------
(* C30 *)

\* C30: when the pipeline has ended, also after adjElev computed the dist
\* of a point again, the distance of the track is the sum of the dist of
\* the points of the list, and the cumulative distance of every point
\* after the first is that of its predecessor plus its dist
C30_AsStated ==
    PipelineDone =>
        /\ trk.distance = SumDist(pts, Len(pts))
        /\ \A k \in 2..Len(pts) :
              pts[k].distance = pts[k - 1].distance + pts[k].dist

=============================================================================
